---- MODULE Spec2Model ----
(***************************************************************************)
(* Model of ParasailNodeBot (parasail_api_bot.py): the 429 retry loop of   *)
(* _send_api_request, verify_user, the three node actions with their       *)
(* re-authentication recursion, start_countdown and the asyncio tasks      *)
(* (start, _countdown_loop, _stats_update_loop) under the cooperative      *)
(* scheduling of one event loop.                                           *)
(*                                                                         *)
(* One task runs at a time (variable running); a task gives up the event   *)
(* loop only at an await that really suspends: asyncio.sleep.  The network *)
(* calls are blocking requests.get / requests.post calls whose answer is   *)
(* an input of the model.                                                  *)
(***************************************************************************)
EXTENDS Integers, FiniteSets, Sequences, TLC

\* ---------------------------------------------------------------- bounds
\* number of 401 answers the server gives to one invocation of a node action
Max401 == 2
\* size of the pool of task identities
MaxTasks == 5
\* the server rate-limits a task only while the other tasks are sleeping
\* through fewer than MaxBackingOff retries in all
MaxBackingOff == 1
\* the server fails the polls of the stats loop only in the last
\* PollFaultTicks ticks of a countdown
PollFaultTicks == 2

\* ------------------------------------------------------ program constants
max_retries == 5
initial_delay == 5
FallbackSeconds == 12 * 3600
TickSeconds == 60
\* the value of a task handle that holds no task, and of an idle event loop
None == 0
\* the task asyncio.run(main()) creates
MainId == 1

TaskIds == 1..MaxTasks

\* ----------------------------------------------------------------- inputs
\* bearer tokens: "" is the token of the empty config, "null" an absent one
StoredTokens == {"", "t1"}
\* the address Account.from_key derives from the private key
Addr == "A"
\* what os.getenv("PRIVATE_KEY") and Account.from_key can give
Keys == {"missing", "bad", "ok"}
ResponseTokens == {"null", "t2"}
\* values of time.time() * 1000 and of next_checkin_timestamp, in ms
NowValues == {1000, 2500}
Timestamps == {500, 3601000}

\* values of random.uniform(0.5, 1.5), in hundredths: a + (b - a) * random()
\* is rounded to 1.5 when random() gives 1 - 2^-53
Jitters == {50, 100, 150}

\* a parsed response body; dict = FALSE is JSON that is not an object
Body(d, tok, tk, ts) == [dict |-> d, token |-> tok, tsKind |-> tk, ts |-> ts]
EmptyStats == Body(TRUE, "null", "absent", 0)
NonDict == Body(FALSE, "null", "absent", 0)

Bodies(endpoint) ==
  IF endpoint = "verify"
  THEN {Body(TRUE, tok, "absent", 0) : tok \in ResponseTokens} \cup {NonDict}
  ELSE IF endpoint = "node_stats"
  THEN {Body(TRUE, "null", "value", ts) : ts \in Timestamps}
       \cup {Body(TRUE, "null", "null", 0), EmptyStats, NonDict}
  ELSE {EmptyStats, NonDict}

\* what one blocking network call can give
Statuses == {"ok", "h429", "h401", "hOther", "transport", "badjson"}

\* the result register of a call: nothing, a value, or an exception
NoRes == [k |-> "none", e |-> "none", body |-> EmptyStats]
Val(b) == [k |-> "val", e |-> "none", body |-> b]
Exc(e) == [k |-> "exc", e |-> e, body |-> EmptyStats]

\* requests.exceptions.HTTPError, raised by raise_for_status
IsHTTPError(e) == e \in {"h429", "h401", "hOther"}

\* config.json: absent, not valid JSON, or the two fields (lines 57-67)
File(st, a, tok) == [state |-> st, wallet_address |-> a, bearer_token |-> tok]
\* the disks the bot is started on: the file, and whether it can be written
Disk(f, w) == [file |-> f, writable |-> w]
Disks ==
  {Disk(File("absent", "", ""), w) : w \in BOOLEAN}
  \cup {Disk(File("malformed", "", ""), TRUE)}
  \cup {Disk(File("ok", "old", tok), FALSE) : tok \in StoredTokens \ {""}}

VARIABLES
  wallet_address,               \* self.config["wallet_address"]
  saved,                        \* the content of config.json
  writable,                     \* whether config.json can be written
  bearer_token,                 \* self.config["bearer_token"]
  countdown_remaining_seconds,  \* self.countdown_remaining_seconds
  countdown_task,               \* self.countdown_task (a task id or None)
  stats_task,                   \* self.stats_task
  tasks,                        \* the tasks of the event loop that are not done
  running,                      \* the task that holds the event loop, or None
  proc                          \* "running", "fatal" after exit(1), or
                                \* "exited" once asyncio.run returned

vars == <<wallet_address, saved, writable, bearer_token,
          countdown_remaining_seconds, countdown_task,
          stats_task, tasks, running, proc>>

\* A task: its coroutine (kind), the position in it (pc) and the frames of
\* the calls in progress, innermost last: start_countdown (sc), the node
\* action (act, apc), verify_user (vpc), _send_api_request (rpc).
NewTask(kind, pc) ==
  [kind |-> kind, pc |-> pc, cancelReq |-> FALSE,
   sc |-> "none",
   act |-> "none", apc |-> "none", attempts |-> 0, verifies |-> 0, n401 |-> 0,
   vpc |-> "none", success |-> FALSE,
   rpc |-> "none", endpoint |-> "none", retry_count |-> 0,
   netCalls |-> 0, n429 |-> 0, sleeps |-> 0,
   now |-> 0, seq |-> "none", wait_time |-> 0,
   clean |-> TRUE, reqs |-> 0, direct |-> 0, hdr |-> "none",
   res |-> NoRes]

Live(id) == id \in DOMAIN tasks
Upd(id, t) == tasks' = [tasks EXCEPT ![id] = t]
Without(f, id) == [i \in (DOMAIN f) \ {id} |-> f[i]]

\* an await that suspends: the task leaves the event loop; a task whose
\* cancellation was requested gets CancelledError there, which no handler
\* of the program catches (it is not an Exception), so the task ends
Suspend(id, t) ==
  /\ tasks' = IF t.cancelReq THEN Without(tasks, id) ELSE [tasks EXCEPT ![id] = t]
  /\ running' = None

\* the coroutine of the task returned
Finish(id) ==
  /\ tasks' = Without(tasks, id)
  /\ running' = None

\* the process starts: main() is about to construct the bot
Init ==
  /\ \E d \in Disks : saved = d.file /\ writable = d.writable
  /\ wallet_address = ""
  /\ bearer_token = ""
  /\ countdown_remaining_seconds = 0
  /\ countdown_task = None
  /\ stats_task = None
  /\ tasks = (MainId :> NewTask("main", "new"))
  /\ running = MainId
  /\ proc = "running"

\* ----------------------------------------- __init__, _load_config, _save_config
\* lines 73-78: the file after _save_config of (a, tok); a failure to write
\* is logged and the file stays as it is
SaveConfig(a, tok) == IF writable THEN File("ok", a, tok) ELSE saved

\* lines 53-71: the file after _load_config (an absent file is created)
LoadedFile == IF saved.state = "absent" THEN File("ok", "", "") ELSE saved

\* lines 68-71: a file that is absent and cannot be created, or is not JSON
LoadFails ==
  \/ saved.state = "malformed"
  \/ saved.state = "absent" /\ ~writable

\* exit(1)
Fatal ==
  /\ proc' = "fatal"
  /\ tasks' = [i \in {} |-> NewTask("main", "new")]
  /\ running' = None

\* bot = ParasailNodeBot(): lines 19-51
Construct(id) ==
  /\ running = id /\ Live(id)
  /\ tasks[id].pc = "new"
  /\ IF LoadFails
     THEN Fatal /\ UNCHANGED <<wallet_address, saved, bearer_token>>
     ELSE \E key \in Keys :
            IF key # "ok"
            THEN /\ Fatal
                 /\ saved' = LoadedFile
                 /\ wallet_address' = LoadedFile.wallet_address
                 /\ bearer_token' = LoadedFile.bearer_token
            ELSE /\ wallet_address' = Addr
                 /\ bearer_token' = LoadedFile.bearer_token
                 /\ saved' = IF LoadedFile.wallet_address # Addr
                             THEN SaveConfig(Addr, LoadedFile.bearer_token)
                             ELSE LoadedFile
                 /\ Upd(id, [tasks[id] EXCEPT !.pc = "start"])
                 /\ UNCHANGED <<running, proc>>
  /\ UNCHANGED <<writable, countdown_remaining_seconds, countdown_task,
                 stats_task>>

\* ------------------------------------------------------ _send_api_request
\* the network requests of a node action are counted as long as it has met
\* no failure: one more request, made through _send_api_request or not,
\* answered well or not
Counted(t, isDirect, well) ==
  IF t.clean /\ well
  THEN [t EXCEPT !.reqs = @ + 1, !.direct = IF isDirect THEN @ + 1 ELSE @]
  ELSE [t EXCEPT !.clean = FALSE, !.reqs = 0, !.direct = 0]

\* not self.config.get("bearer_token")
NoToken(tok) == tok \in {"", "null"}

AuthHeaderMut(tok) == tok
\* lines 86-88 and 225-227: the Authorization header built from the token,
\* "none" when no such header is set
AuthHeader(tok) == IF NoToken(tok) THEN "none" ELSE tok

CallSend(t, ep) ==
  [t EXCEPT !.rpc = "call", !.endpoint = ep, !.retry_count = 0,
            !.hdr = AuthHeader(bearer_token),
            !.netCalls = 0, !.n429 = 0, !.sleeps = 0, !.res = NoRes]

IsRateLimitMut(status) == status \in {"h429", "hOther"}
\* line 103
IsRateLimit(status) == status = "h429"

ShouldRetryMut(retry_count) == retry_count <= max_retries
\* line 104
ShouldRetry(retry_count) == retry_count < max_retries

RECURSIVE Pow2(_)
Pow2(n) == IF n = 0 THEN 1 ELSE 2 * Pow2(n - 1)

WaitTimeMut(retry_count, jitter) ==
  initial_delay * Pow2(retry_count + 1) * jitter
\* lines 105-107, in hundredths of a second
WaitTime(retry_count, jitter) ==
  initial_delay * Pow2(retry_count) * jitter

\* the tasks other than id that are in a backoff sleep
BackingOff(id) == {j \in (DOMAIN tasks) \ {id} : tasks[j].rpc = "sleep"}

\* the retries those tasks have been sent into, the pending ones included
BackoffLoad(id) ==
  Cardinality({jk \in BackingOff(id) \X (0..max_retries) :
                 jk[2] <= tasks[jk[1]].retry_count})

\* the answers the server may give to the next call of task id
Answers(id) ==
  LET t == tasks[id] IN
  {s \in Statuses :
     /\ s = "h401" => (t.endpoint = "verify" \/ t.n401 < Max401)
     /\ s = "h429" => BackoffLoad(id) < MaxBackingOff
     /\ (s # "ok" /\ t.kind = "stats")
          => countdown_remaining_seconds <= PollFaultTicks * TickSeconds}

\* one requests.get / requests.post of _send_api_request and its handlers
SendCall(id) ==
  /\ running = id /\ Live(id)
  /\ tasks[id].rpc = "call"
  /\ \E s \in Answers(id) :
       LET t == [Counted(tasks[id], FALSE, s = "ok")
                   EXCEPT !.netCalls = @ + 1,
                          !.n429 = IF s = "h429" THEN @ + 1 ELSE @] IN
       IF s = "ok"
       THEN \E b \in Bodies(t.endpoint) :
              /\ Upd(id, [t EXCEPT !.rpc = "done", !.res = Val(b)])
              /\ UNCHANGED running
       ELSE IF IsRateLimit(s) /\ ShouldRetry(t.retry_count)
       THEN \E jitter \in Jitters :
              /\ Upd(id, [t EXCEPT !.rpc = "backoff", !.sleeps = @ + 1,
                                   !.wait_time = WaitTime(t.retry_count, jitter)])
              /\ UNCHANGED running
       ELSE /\ Upd(id, [t EXCEPT !.rpc = "done",
                                 !.res = Exc(IF s = "badjson" THEN "other" ELSE s)])
            /\ UNCHANGED running
  /\ UNCHANGED <<wallet_address, saved, writable, bearer_token, countdown_remaining_seconds, countdown_task,
                 stats_task, proc>>

\* line 111: await asyncio.sleep(wait_time)
BackoffSleep(id) ==
  /\ running = id /\ Live(id)
  /\ tasks[id].rpc = "backoff"
  /\ Suspend(id, [tasks[id] EXCEPT !.rpc = "sleep", !.wait_time = 0,
                                   !.hdr = "none"])
  /\ UNCHANGED <<wallet_address, saved, writable, bearer_token,
                 countdown_remaining_seconds, countdown_task, stats_task, proc>>

\* asyncio.sleep(wait_time) is over: the recursive call with retry_count + 1
BackoffWake(id) ==
  /\ running = None /\ Live(id)
  /\ tasks[id].rpc = "sleep"
  /\ Upd(id, [tasks[id] EXCEPT !.rpc = "call", !.retry_count = @ + 1,
                               !.hdr = AuthHeader(bearer_token)])
  /\ running' = id
  /\ UNCHANGED <<wallet_address, saved, writable, bearer_token, countdown_remaining_seconds, countdown_task,
                 stats_task, proc>>

\* ------------------------------------------------------------ verify_user
CallVerify(t) == [t EXCEPT !.vpc = "sign", !.verifies = @ + 1]

VerifyResultMut(res) ==
  IF res.k = "val" /\ res.body.dict THEN "true"
  ELSE IF res.k = "exc" /\ res.e = "transport" THEN "raised" ELSE "false"
\* lines 154-168: True when the request gave a dict (response.get works),
\* False on every Exception
VerifyResult(res) ==
  IF res.k = "val" /\ res.body.dict THEN "true" ELSE "false"

TokenAfterVerifyMut(res, tok) ==
  IF res.k = "val" THEN res.body.token ELSE tok
TokenClearedOnFailure(res, tok) ==
  IF res.k = "val" /\ res.body.dict THEN res.body.token ELSE ""
\* line 161: the token in self.config once verify_user is over; the
\* assignment is reached only when the request returned, and
\* response.get raises before it when the response is not a dict
TokenAfterVerify(res, tok) ==
  IF VerifyResult(res) = "true" THEN res.body.token ELSE tok

\* generate_signature, then the request to /user/verify is issued
VerifySign(id) ==
  /\ running = id /\ Live(id)
  /\ tasks[id].vpc = "sign"
  /\ \E signed \in BOOLEAN :
       IF signed
       THEN Upd(id, [CallSend(tasks[id], "verify") EXCEPT !.vpc = "req"])
       ELSE Upd(id, [tasks[id] EXCEPT !.vpc = "done", !.success = FALSE,
                                      !.res = Exc("sign")])
  /\ UNCHANGED <<wallet_address, saved, writable, bearer_token, countdown_remaining_seconds, countdown_task,
                 stats_task, running, proc>>

\* the request returned or raised: store the token, or log and return False
VerifyAfterSend(id) ==
  /\ running = id /\ Live(id)
  /\ tasks[id].vpc = "req" /\ tasks[id].rpc = "done"
  /\ LET t == tasks[id]
         r == VerifyResult(t.res) IN
       /\ bearer_token' = TokenAfterVerify(t.res, bearer_token)
       /\ saved' = IF r = "true"
                   THEN SaveConfig(wallet_address, t.res.body.token) ELSE saved
       /\ Upd(id, [t EXCEPT !.rpc = "none",
                            !.vpc = IF r = "raised" THEN "raised" ELSE "done",
                            !.success = (r = "true")])
  /\ UNCHANGED <<wallet_address, writable, countdown_remaining_seconds,
                 countdown_task, stats_task, running, proc>>

\* ---------------------------------- onboard_node, check_in, get_node_stats
Actions == {"onboard_node", "check_in", "get_node_stats"}

EndpointOf(a) ==
  IF a = "onboard_node" THEN "onboard"
  ELSE IF a = "check_in" THEN "check_in" ELSE "node_stats"

CallAction(t, a) ==
  [t EXCEPT !.act = a, !.apc = "begin", !.attempts = 0, !.verifies = 0,
            !.n401 = 0, !.clean = TRUE, !.reqs = 0, !.direct = 0,
            !.res = NoRes]

Return(t, b) == [t EXCEPT !.apc = "done", !.rpc = "none", !.res = Val(b)]
Raise(t, e) == [t EXCEPT !.apc = "done", !.rpc = "none", !.res = Exc(e)]

\* the except clauses of a node action, for exception e of its try body:
\* lines 175-190, 197-212, 242-259
ActionOnError(t, e) ==
  IF e = "h401"
  THEN CallVerify([t EXCEPT !.apc = "verify", !.rpc = "none", !.n401 = @ + 1])
  ELSE IF IsHTTPError(e) THEN Raise(t, e)
  ELSE IF t.act = "get_node_stats" THEN Return(t, EmptyStats)
  ELSE Raise(t, e)

\* the rest of the try body once _send_api_request returned body b:
\* response.get(...) of lines 174 and 196; get_node_stats goes on to its own
\* requests.get (line 230)
ActionOnValue(t, b) ==
  IF t.act = "get_node_stats"
  THEN [t EXCEPT !.apc = "direct", !.rpc = "none", !.res = NoRes,
                 !.hdr = AuthHeader(bearer_token)]
  ELSE IF b.dict THEN Return(t, EmptyStats)
  ELSE ActionOnError(t, "other")

AfterVerifyNoRetry(t) ==
  IF t.vpc = "raised" THEN Raise([t EXCEPT !.vpc = "none"], t.res.e)
  ELSE IF t.success THEN Return([t EXCEPT !.vpc = "none"], EmptyStats)
  ELSE Raise([t EXCEPT !.vpc = "none"], "h401")
AfterVerifyAlwaysRetry(t) ==
  IF t.vpc = "raised" THEN Raise([t EXCEPT !.vpc = "none"], t.res.e)
  ELSE [t EXCEPT !.vpc = "none", !.apc = "begin"]
\* lines 178-184, 200-206, 245-251: retry the action, or re-raise the 401
AfterVerify(t) ==
  IF t.vpc = "raised" THEN Raise([t EXCEPT !.vpc = "none"], t.res.e)
  ELSE IF t.success THEN [t EXCEPT !.vpc = "none", !.apc = "begin"]
  ELSE Raise([t EXCEPT !.vpc = "none"], "h401")

\* the action is entered (first call or recursive retry) and issues its
\* request through _send_api_request
ActionBegin(id) ==
  /\ running = id /\ Live(id)
  /\ tasks[id].apc = "begin"
  /\ Upd(id, [CallSend(tasks[id], EndpointOf(tasks[id].act))
                EXCEPT !.apc = "req", !.attempts = @ + 1])
  /\ UNCHANGED <<wallet_address, saved, writable, bearer_token, countdown_remaining_seconds, countdown_task,
                 stats_task, running, proc>>

ActionAfterSend(id) ==
  /\ running = id /\ Live(id)
  /\ tasks[id].apc = "req" /\ tasks[id].rpc = "done"
  /\ LET t == tasks[id] IN
       Upd(id, IF t.res.k = "val" THEN ActionOnValue(t, t.res.body)
               ELSE ActionOnError(t, t.res.e))
  /\ UNCHANGED <<wallet_address, saved, writable, bearer_token, countdown_remaining_seconds, countdown_task,
                 stats_task, running, proc>>

\* get_node_stats lines 224-241: its own requests.get, outside
\* _send_api_request, and the logging of the stats
ActionDirect(id) ==
  /\ running = id /\ Live(id)
  /\ tasks[id].apc = "direct"
  /\ \E s \in Answers(id) :
       LET t == Counted(tasks[id], TRUE, s = "ok") IN
       IF s = "ok"
       THEN \E b \in Bodies(t.endpoint) :
              Upd(id, IF b.dict THEN Return(t, b) ELSE ActionOnError(t, "other"))
       ELSE Upd(id, ActionOnError(t, IF s = "badjson" THEN "other" ELSE s))
  /\ UNCHANGED <<wallet_address, saved, writable, bearer_token, countdown_remaining_seconds, countdown_task,
                 stats_task, running, proc>>

ActionAfterVerify(id) ==
  /\ running = id /\ Live(id)
  /\ tasks[id].apc = "verify" /\ tasks[id].vpc \in {"done", "raised"}
  /\ Upd(id, AfterVerify(tasks[id]))
  /\ UNCHANGED <<wallet_address, saved, writable, bearer_token, countdown_remaining_seconds, countdown_task,
                 stats_task, running, proc>>

\* -------------------------------------------------------- start_countdown
\* the frames of the calls a top-level coroutine made are gone
Clear(t, pc) ==
  [NewTask(t.kind, pc) EXCEPT !.cancelReq = t.cancelReq, !.seq = t.seq]

CompletedMut(res) == TRUE
\* an awaited step of a try block returned: the next statement runs; when
\* it raised, control goes to the except clause (lines 302-309, 343-355)
Completed(res) == res.k = "val"

\* the steps of its sequence the task has completed so far
Progress(t, step) ==
  [t EXCEPT !.seq = IF t.res.k = "val" THEN step ELSE t.seq]

\* Task.cancel() called by the running task self on the task of handle h.
\* Another task is suspended at an await: CancelledError is thrown there and
\* ends it, no code of it runs again.  The running task itself only gets
\* the request, delivered at its next suspension.
Cancel(ts, h, self) ==
  IF h = None \/ h \notin DOMAIN ts THEN ts
  ELSE IF h = self THEN [ts EXCEPT ![h].cancelReq = TRUE]
  ELSE Without(ts, h)

CancelPriorMut(ts, self) == ts
\* lines 262-265
CancelPrior(ts, self) == Cancel(Cancel(ts, countdown_task, self), stats_task, self)

Max0(x) == IF x > 0 THEN x ELSE 0
\* int() of a quotient: truncation towards zero
Trunc(a, b) == IF a >= 0 THEN a \div b ELSE -((-a) \div b)

RemainingMut(b, now) ==
  IF b.tsKind = "value" THEN Trunc(b.ts - now, 1000) ELSE FallbackSeconds
\* lines 270-277
Remaining(b, now) ==
  IF b.tsKind = "value" THEN Max0(Trunc(b.ts - now, 1000)) ELSE FallbackSeconds

\* the identity of the next task asyncio.create_task makes
FreshIds(ts) == TaskIds \ DOMAIN ts
MinOf(S) == CHOOSE x \in S : \A y \in S : x <= y
MaxOf(S) == CHOOSE x \in S : \A y \in S : x >= y

SCBegin(id) ==
  /\ running = id /\ Live(id)
  /\ tasks[id].sc = "begin"
  /\ LET ts == CancelPrior(tasks, id) IN
       tasks' = [ts EXCEPT ![id] = CallAction([ts[id] EXCEPT !.sc = "fetch"],
                                               "get_node_stats")]
  /\ UNCHANGED <<wallet_address, saved, writable, bearer_token, countdown_remaining_seconds, countdown_task,
                 stats_task, running, proc>>

\* get_node_stats returned: the schedule is computed and the two loops are
\* created (lines 270-280); or it raised, and start_countdown raises
SCAfterStats(id) ==
  /\ running = id /\ Live(id)
  /\ tasks[id].sc = "fetch" /\ tasks[id].apc = "done"
  /\ LET t == tasks[id] IN
       IF t.res.k = "val"
       THEN /\ Cardinality(FreshIds(tasks)) >= 2
            /\ \E now \in NowValues :
                 LET c == MinOf(FreshIds(tasks))
                     s == MaxOf(FreshIds(tasks) \ {c}) IN
                   /\ countdown_remaining_seconds' = Remaining(t.res.body, now)
                   /\ tasks' = [tasks EXCEPT
                                  ![id] = [t EXCEPT !.sc = "done", !.now = now]]
                                @@ (c :> NewTask("countdown", "c_start"))
                                @@ (s :> NewTask("stats", "st_start"))
                   /\ countdown_task' = c
                   /\ stats_task' = s
       ELSE /\ Upd(id, [t EXCEPT !.sc = "raised"])
            /\ UNCHANGED <<countdown_remaining_seconds, countdown_task, stats_task>>
  /\ UNCHANGED <<wallet_address, saved, writable, bearer_token, running, proc>>

\* ------------------------------------------------------------------ start
Same == UNCHANGED <<wallet_address, saved, writable, bearer_token, countdown_remaining_seconds, countdown_task,
                    stats_task, running, proc>>
SameButRunning == UNCHANGED <<wallet_address, saved, writable, bearer_token, countdown_remaining_seconds,
                              countdown_task, stats_task, proc>>

\* lines 315-324
StartBegin(id) ==
  /\ running = id /\ Live(id)
  /\ tasks[id].pc = "start"
  /\ Upd(id, IF NoToken(bearer_token)
             THEN CallVerify([tasks[id] EXCEPT !.pc = "s_verify"])
             ELSE CallAction([tasks[id] EXCEPT !.pc = "s_check"], "get_node_stats"))
  /\ Same

StartMayProceedMut(t) == TRUE
\* lines 318-320 and 330-332: start goes on only when verify_user returned
\* True, and returns otherwise
StartMayProceed(t) == t.vpc = "done" /\ t.success

\* lines 317-320 and 329-332
StartAfterVerify(id) ==
  /\ running = id /\ Live(id)
  /\ tasks[id].pc \in {"s_verify", "s_reverify"}
  /\ tasks[id].vpc \in {"done", "raised"}
  /\ Upd(id, IF StartMayProceed(tasks[id])
             THEN CallAction(Clear(tasks[id], "s_onboard"), "onboard_node")
             ELSE Clear(tasks[id], "s_return"))
  /\ Same

\* lines 323-338: the check of the stored token
StartAfterCheck(id) ==
  /\ running = id /\ Live(id)
  /\ tasks[id].pc = "s_check" /\ tasks[id].apc = "done"
  /\ Upd(id, IF tasks[id].res.k = "exc" /\ tasks[id].res.e = "h401"
             THEN CallVerify(Clear(tasks[id], "s_reverify"))
             ELSE CallAction(Clear(tasks[id], "s_onboard"), "onboard_node"))
  /\ Same

\* lines 343-344; an exception goes to the except clause of line 354
StartAfterOnboard(id) ==
  /\ running = id /\ Live(id)
  /\ tasks[id].pc = "s_onboard" /\ tasks[id].apc = "done"
  /\ IF Completed(tasks[id].res)
     THEN Suspend(id, Clear(Progress(tasks[id], "onboarded"), "s_sleep1"))
     ELSE Upd(id, Clear(tasks[id], "s_return")) /\ UNCHANGED running
  /\ SameButRunning

StartWake1(id) ==
  /\ running = None /\ Live(id)
  /\ tasks[id].pc = "s_sleep1"
  /\ Upd(id, CallAction([tasks[id] EXCEPT !.pc = "s_checkin"], "check_in"))
  /\ running' = id
  /\ SameButRunning

\* lines 345-346
StartAfterCheckin(id) ==
  /\ running = id /\ Live(id)
  /\ tasks[id].pc = "s_checkin" /\ tasks[id].apc = "done"
  /\ IF Completed(tasks[id].res)
     THEN Suspend(id, Clear(Progress(tasks[id], "checked_in"), "s_sleep2"))
     ELSE Upd(id, Clear(tasks[id], "s_return")) /\ UNCHANGED running
  /\ SameButRunning

\* line 348
StartWake2(id) ==
  /\ running = None /\ Live(id)
  /\ tasks[id].pc = "s_sleep2"
  /\ Upd(id, [tasks[id] EXCEPT !.pc = "s_countdown", !.sc = "begin"])
  /\ running' = id
  /\ SameButRunning

\* lines 348-352
StartAfterCountdown(id) ==
  /\ running = id /\ Live(id)
  /\ tasks[id].pc = "s_countdown" /\ tasks[id].sc \in {"done", "raised"}
  /\ IF tasks[id].sc = "done"
     THEN Suspend(id, Clear(tasks[id], "s_forever"))
     ELSE Upd(id, Clear(tasks[id], "s_return")) /\ UNCHANGED running
  /\ SameButRunning

\* lines 351-352: asyncio.sleep(3600) is over and is called again
StartForever(id) ==
  /\ running = None /\ Live(id)
  /\ tasks[id].pc = "s_forever"
  /\ UNCHANGED vars

\* start returned, main returns, asyncio.run cancels what is left and the
\* process ends
StartReturn(id) ==
  /\ running = id /\ Live(id)
  /\ tasks[id].pc = "s_return"
  /\ tasks' = [i \in {} |-> tasks[id]]
  /\ running' = None
  /\ proc' = "exited"
  /\ UNCHANGED <<wallet_address, saved, writable, bearer_token, countdown_remaining_seconds, countdown_task,
                 stats_task>>

\* ------------------------------------ _countdown_loop, perform_routine_tasks
Min(a, b) == IF a <= b THEN a ELSE b

\* the while test of line 284 with rem seconds left; line 289 when it fails
LoopTest(id, t, rem) ==
  IF rem > 0
  THEN Suspend(id, [t EXCEPT !.pc = "c_sleep"])
  ELSE /\ Upd(id, CallAction([t EXCEPT !.pc = "r_onboard"], "onboard_node"))
       /\ running' = id

\* the new task gets the event loop for the first time
CountdownRun(id) ==
  /\ running = None /\ Live(id)
  /\ tasks[id].pc = "c_start"
  /\ LoopTest(id, tasks[id], countdown_remaining_seconds)
  /\ SameButRunning

TickDownMut(rem) == rem - TickSeconds
\* line 286
TickDown(rem) == rem - Min(rem, TickSeconds)

\* lines 285-286
CountdownTick(id) ==
  /\ running = None /\ Live(id)
  /\ tasks[id].pc = "c_sleep"
  /\ countdown_remaining_seconds' = TickDown(countdown_remaining_seconds)
  /\ LoopTest(id, tasks[id], countdown_remaining_seconds')
  /\ UNCHANGED <<wallet_address, saved, writable, bearer_token, countdown_task, stats_task, proc>>

\* lines 303-304; an exception goes to the except clause of line 308
RoutineAfterOnboard(id) ==
  /\ running = id /\ Live(id)
  /\ tasks[id].pc = "r_onboard" /\ tasks[id].apc = "done"
  /\ IF Completed(tasks[id].res)
     THEN Suspend(id, Clear(Progress(tasks[id], "onboarded"), "r_sleep1"))
     ELSE Upd(id, Clear(tasks[id], "r_failed")) /\ UNCHANGED running
  /\ SameButRunning

RoutineWake1(id) ==
  /\ running = None /\ Live(id)
  /\ tasks[id].pc = "r_sleep1"
  /\ Upd(id, CallAction([tasks[id] EXCEPT !.pc = "r_checkin"], "check_in"))
  /\ running' = id
  /\ SameButRunning

\* lines 305-306
RoutineAfterCheckin(id) ==
  /\ running = id /\ Live(id)
  /\ tasks[id].pc = "r_checkin" /\ tasks[id].apc = "done"
  /\ IF Completed(tasks[id].res)
     THEN Suspend(id, Clear(Progress(tasks[id], "checked_in"), "r_sleep2"))
     ELSE Upd(id, Clear(tasks[id], "r_failed")) /\ UNCHANGED running
  /\ SameButRunning

\* line 307
RoutineWake2(id) ==
  /\ running = None /\ Live(id)
  /\ tasks[id].pc = "r_sleep2"
  /\ Upd(id, [tasks[id] EXCEPT !.pc = "r_countdown", !.sc = "begin"])
  /\ running' = id
  /\ SameButRunning

\* start_countdown returned: perform_routine_tasks and _countdown_loop
\* return and the task is done; or it raised (line 308)
RoutineAfterCountdown(id) ==
  /\ running = id /\ Live(id)
  /\ tasks[id].pc = "r_countdown" /\ tasks[id].sc \in {"done", "raised"}
  /\ IF tasks[id].sc = "done"
     THEN Finish(id)
     ELSE Upd(id, Clear(tasks[id], "r_failed")) /\ UNCHANGED running
  /\ SameButRunning

\* lines 308-309: the failure is logged, the coroutine returns
RoutineFailed(id) ==
  /\ running = id /\ Live(id)
  /\ tasks[id].pc = "r_failed"
  /\ Finish(id)
  /\ SameButRunning

\* ------------------------------------------------------ _stats_update_loop
\* the new task gets the event loop and sleeps (line 294)
StatsRun(id) ==
  /\ running = None /\ Live(id)
  /\ tasks[id].pc = "st_start"
  /\ Suspend(id, [tasks[id] EXCEPT !.pc = "st_sleep"])
  /\ SameButRunning

\* line 296
StatsWake(id) ==
  /\ running = None /\ Live(id)
  /\ tasks[id].pc = "st_sleep"
  /\ Upd(id, CallAction([tasks[id] EXCEPT !.pc = "st_fetch"], "get_node_stats"))
  /\ running' = id
  /\ SameButRunning

StatsLoopNextMut(res) == IF res.k = "exc" THEN "st_failed" ELSE "st_sleep"
\* lines 293-298: whether get_node_stats returned or raised an Exception,
\* the while True loop goes back to its sleep
StatsLoopNext(res) == "st_sleep"

\* lines 295-298: the result is dropped, an exception is logged
StatsAfterFetch(id) ==
  /\ running = id /\ Live(id)
  /\ tasks[id].pc = "st_fetch" /\ tasks[id].apc = "done"
  /\ Suspend(id, Clear(tasks[id], StatsLoopNext(tasks[id].res)))
  /\ SameButRunning

\* ---------------------------------------------------------- specification
Step(id) ==
  \/ Construct(id)
  \/ SendCall(id) \/ BackoffSleep(id) \/ BackoffWake(id)
  \/ VerifySign(id) \/ VerifyAfterSend(id)
  \/ ActionBegin(id) \/ ActionAfterSend(id) \/ ActionDirect(id)
  \/ ActionAfterVerify(id)
  \/ SCBegin(id) \/ SCAfterStats(id)
  \/ StartBegin(id) \/ StartAfterVerify(id) \/ StartAfterCheck(id)
  \/ StartAfterOnboard(id) \/ StartWake1(id) \/ StartAfterCheckin(id)
  \/ StartWake2(id) \/ StartAfterCountdown(id) \/ StartForever(id)
  \/ StartReturn(id)
  \/ CountdownRun(id) \/ CountdownTick(id)
  \/ RoutineAfterOnboard(id) \/ RoutineWake1(id) \/ RoutineAfterCheckin(id)
  \/ RoutineWake2(id) \/ RoutineAfterCountdown(id) \/ RoutineFailed(id)
  \/ StatsRun(id) \/ StatsWake(id) \/ StatsAfterFetch(id)

Next == \E id \in TaskIds : Step(id)

Spec == Init /\ [][Next]_vars

\* the event loop runs every task that is ready, and every sleep ends
FairSpec == Spec /\ \A id \in TaskIds : WF_vars(Step(id))

\* ----------------------------------------------------------------- claims
Ids == DOMAIN tasks

\* C1: a request sent through _send_api_request makes at most 6 network
\* calls and sleeps at most 5 times, and when it ends with the 429 raised to
\* the caller it made exactly 6 calls and 5 sleeps: the 6th consecutive 429
\* is raised with no further call and no further sleep.
C1_RetryBound ==
  \A i \in Ids :
    /\ tasks[i].rpc # "none" => (tasks[i].netCalls <= 6 /\ tasks[i].sleeps <= 5)
    /\ (tasks[i].rpc = "done" /\ tasks[i].res = Exc("h429"))
         => (tasks[i].netCalls = 6 /\ tasks[i].sleeps = 5)

C1_Witness ==
  \E i \in Ids : /\ tasks[i].rpc = "done" /\ tasks[i].res = Exc("h429")
                 /\ tasks[i].netCalls = 6

\* C2: a node action that got exactly one 401 called verify_user exactly
\* once; when that call returned True and the action then ended, the action
\* was attempted exactly twice.
C2_SingleReauth ==
  \A i \in Ids :
    /\ (tasks[i].act # "none" /\ tasks[i].n401 = 1) => tasks[i].verifies = 1
    /\ (tasks[i].apc = "done" /\ tasks[i].n401 = 1 /\ tasks[i].success)
         => (tasks[i].verifies = 1 /\ tasks[i].attempts = 2)

C2_Witness ==
  \E i \in Ids : /\ tasks[i].apc = "done" /\ tasks[i].n401 = 1
                 /\ tasks[i].success /\ tasks[i].res.k = "val"
                 /\ tasks[i].attempts = 2

\* C3: within one invocation of a node action the action is attempted at
\* most twice and verify_user is called at most once.
C3_AtMostTwoAttempts ==
  \A i \in Ids : tasks[i].attempts <= 2 /\ tasks[i].verifies <= 1

\* C4: once a routine-task sequence has failed and the failure was caught
\* in perform_routine_tasks, a later routine-task sequence is eventually
\* started.
C4_FailedRoutineRetried ==
  (\E i \in Ids : tasks[i].pc = "r_failed")
    ~> (\E i \in Ids : tasks[i].pc = "r_onboard")

\* C5: at most one countdown loop and at most one stats loop is active (a
\* task that is not done and whose cancellation was not requested) in every
\* state, and when start_countdown has created its tasks exactly one of
\* each is active: the ones its handles name.
ActiveLoops(kind) ==
  {i \in Ids : tasks[i].kind = kind /\ ~tasks[i].cancelReq}

C5_OneCountdown ==
  /\ Cardinality(ActiveLoops("countdown")) <= 1
  /\ Cardinality(ActiveLoops("stats")) <= 1
  /\ \A i \in Ids : tasks[i].sc = "done"
       => /\ ActiveLoops("countdown") = {countdown_task}
          /\ ActiveLoops("stats") = {stats_task}

C5_Witness ==
  \E i \in Ids : /\ tasks[i].kind = "countdown" /\ tasks[i].sc = "done"
                 /\ tasks[i].cancelReq
                 /\ Cardinality(ActiveLoops("countdown")) = 1

\* C6: get_node_stats raises no failure other than the 401 of a failed
\* re-authentication: every other failure gives the empty stats record.
C6_StatsDegrades ==
  \A i \in Ids :
    (tasks[i].act = "get_node_stats" /\ tasks[i].apc = "done"
       /\ tasks[i].res.k = "exc") => tasks[i].res.e = "h401"

\* C7: every call of start_countdown ends with a schedule in place: it does
\* not end by an exception, and when the stats gave no timestamp the
\* countdown is the 12-hour fallback.
C7_AlwaysScheduled ==
  \A i \in Ids :
    /\ tasks[i].sc # "raised"
    /\ (tasks[i].sc = "done" /\ tasks[i].res.body.tsKind # "value")
         => countdown_remaining_seconds = 43200

\* C8: a node action whose verify_user returned False ends with the 401
\* raised to its caller, and was not attempted again after that call.
C8_ReauthFailedAborts ==
  \A i \in Ids :
    (tasks[i].apc = "done" /\ tasks[i].verifies > 0 /\ ~tasks[i].success)
      => (tasks[i].res = Exc("h401") /\ tasks[i].attempts = tasks[i].verifies)

C8_Witness ==
  \E i \in Ids : /\ tasks[i].apc = "done" /\ tasks[i].verifies = 1
                 /\ ~tasks[i].success /\ tasks[i].res = Exc("h401")
                 /\ tasks[i].attempts = 1

\* C9: when _send_api_request raises a failure other than 429, the failing
\* call is its only call that was not a retried 429: every earlier call got
\* a 429 and every sleep followed a 429, and verify_user was not entered.
C9_OnlyRateLimitRetried ==
  \A i \in Ids :
    /\ tasks[i].rpc # "none" => tasks[i].sleeps <= tasks[i].n429
    /\ (tasks[i].rpc = "done" /\ tasks[i].res.k = "exc"
          /\ tasks[i].res.e \in {"h401", "hOther", "transport", "other"})
         => /\ tasks[i].netCalls = tasks[i].n429 + 1
            /\ tasks[i].sleeps = tasks[i].n429
            /\ tasks[i].vpc \in {"none", "req"}

C9_Witness ==
  \E i \in Ids : /\ tasks[i].rpc = "done" /\ tasks[i].res = Exc("hOther")
                 /\ tasks[i].netCalls = 2 /\ tasks[i].sleeps = 1

\* C10: verify_user hands no exception to its caller; it returns True
\* exactly when its request succeeded with a response it could read, and
\* False after every failure.
C10_VerifyNeverRaises ==
  \A i \in Ids :
    /\ tasks[i].vpc # "raised"
    /\ tasks[i].vpc = "done"
         => (tasks[i].success <=> (tasks[i].res.k = "val" /\ tasks[i].res.body.dict))

C10_Witness ==
  \E i \in Ids : /\ tasks[i].vpc = "done" /\ ~tasks[i].success
                 /\ tasks[i].res = Exc("transport")

\* the bot object exists: __init__ returned
Constructed ==
  proc # "fatal" /\ (MainId \in Ids => tasks[MainId].pc # "new")

\* C11: when verify_user has just succeeded, the token stored in memory and
\* the token in the persisted config both equal the token of that response
\* (so after two successful calls they equal the second one's token).
C11_TokenOverwritten ==
  \A i \in Ids :
    (tasks[i].vpc = "done" /\ tasks[i].success)
      => /\ bearer_token = tasks[i].res.body.token
         /\ saved.state = "ok"
         /\ saved.bearer_token = tasks[i].res.body.token

\* C12: when start_countdown has computed the schedule from the fetched stats,
\* remaining = max(0, floor((next - now) / 1000)) when the stats carry a
\* non-null timestamp (3600 for now + 3600000, 0 for a timestamp not in the
\* future) and exactly 43200 when it is missing, null or the stats are empty.
C12_RemainingFromStats ==
  \A i \in Ids :
    tasks[i].sc = "done" =>
      LET b == tasks[i].res.body
          now == tasks[i].now
          r == countdown_remaining_seconds IN
        /\ b.tsKind = "value" =>
             /\ r = (IF (b.ts - now) \div 1000 > 0
                     THEN (b.ts - now) \div 1000 ELSE 0)
             /\ b.ts = now + 3600000 => r = 3600
             /\ b.ts <= now => r = 0
        /\ b.tsKind # "value" => r = 43200

C12_Witness ==
  \E i \in Ids : /\ tasks[i].sc = "done"
                  /\ tasks[i].res.body.tsKind = "value"
                  /\ tasks[i].res.body.ts = tasks[i].now + 3600000
                  /\ countdown_remaining_seconds = 3600

\* C13: the process ends only through the fatal exit of the construction;
\* start() never returns, whatever fails at startup.
C13_OnlyFatalErrorsTerminate ==
  proc # "exited"

\* a step taken by the stats loop task i
StatsStep(i) ==
  /\ i \in Ids /\ tasks[i].kind = "stats"
  /\ \/ running = i
     \/ running = None /\ (i \notin DOMAIN tasks' \/ tasks'[i] # tasks[i])

\* C14: every step of the stats loop, its fetch failed or not, leaves
\* countdown_remaining_seconds, the countdown handle and the countdown task
\* as they are and keeps the stats loop alive; when the fetch is over, failed
\* or not, the loop is back in its 60 second sleep.
C14_StatsTickFrame ==
  [][\A i \in TaskIds :
       StatsStep(i) =>
         /\ countdown_remaining_seconds' = countdown_remaining_seconds
         /\ countdown_task' = countdown_task
         /\ \A c \in Ids : tasks[c].kind = "countdown" =>
               (c \in DOMAIN tasks' /\ tasks'[c] = tasks[c])
         /\ i \in DOMAIN tasks' /\ tasks'[i].kind = "stats"
         /\ (tasks[i].pc = "st_fetch" /\ tasks[i].apc = "done")
              => tasks'[i].pc = "st_sleep"]_vars

C14_Witness ==
  \E i \in Ids :
    /\ tasks[i].kind = "stats" /\ running = i
    /\ tasks[i].pc = "st_fetch" /\ tasks[i].apc = "done"
    /\ tasks[i].res.k = "exc"
    /\ countdown_remaining_seconds > 0
    /\ countdown_task \in Ids /\ tasks[countdown_task].pc = "c_sleep"

\* the positions inside a sequence onboard, pause, check-in, pause, reschedule
SequencePcs ==
  {p \o q : p \in {"r_", "s_"},
            q \in {"onboard", "sleep1", "checkin", "sleep2", "countdown"}}

\* C15: in a routine-task sequence (the one of start() included) the check-in
\* is issued only after the onboard of the same sequence returned, and
\* start_countdown only after its check-in returned; at most one task is
\* inside such a sequence at a time.
C15_RoutineSequential ==
  /\ \A i \in Ids :
       LET t == tasks[i] IN
       /\ t.pc \in {"r_onboard", "s_onboard"} => t.seq = "none"
       /\ t.pc \in {"r_sleep1", "s_sleep1", "r_checkin", "s_checkin"}
            => t.seq = "onboarded"
       /\ t.pc \in {"r_sleep2", "s_sleep2", "r_countdown", "s_countdown"}
            => t.seq = "checked_in"
       /\ t.act = "check_in" => t.seq = "onboarded"
       /\ t.sc # "none" => t.seq = "checked_in"
  /\ Cardinality({i \in Ids : tasks[i].pc \in SequencePcs}) <= 1

C15_Witness ==
  \E i \in Ids : /\ tasks[i].pc = "r_countdown" /\ tasks[i].sc = "fetch"
                  /\ tasks[i].seq = "checked_in"

C19_OneRequestThroughClient ==
  \A i \in Ids :
    /\ tasks[i].direct = 0
    /\ (tasks[i].act # "none" /\ tasks[i].apc = "done" /\ tasks[i].clean
          /\ tasks[i].res.k = "val")
         => tasks[i].reqs = 1

\* C20: every request about to be sent carries the token stored at that
\* moment in its Authorization header, and no such header when the stored
\* token is absent or empty; this holds for the first call, for the call
\* re-issued after a re-authentication and for every 429 retry.
C20_CurrentTokenSent ==
  \A i \in Ids :
    (tasks[i].rpc = "call" \/ tasks[i].apc = "direct")
      => tasks[i].hdr = (IF bearer_token \in {"", "null"}
                         THEN "none" ELSE bearer_token)

C20_Witness ==
  \E i \in Ids :
    /\ tasks[i].pc = "s_check" /\ tasks[i].rpc = "call"
    /\ tasks[i].attempts = 2 /\ tasks[i].verifies = 1
    /\ saved.bearer_token = "t1" /\ ~writable
    /\ bearer_token = "t2" /\ tasks[i].hdr = "t2"

\* C21: once the bot is constructed, a step changes the stored token only
\* when it is the step of verify_user that received the response and goes on
\* to return True, and the new token is the one of that response.
C21_TokenOnlyByVerify ==
  [][(Constructed /\ bearer_token' # bearer_token) =>
       \E i \in Ids :
         /\ running = i
         /\ tasks[i].vpc = "req" /\ tasks[i].rpc = "done"
         /\ i \in DOMAIN tasks'
         /\ tasks'[i].vpc = "done" /\ tasks'[i].success
         /\ bearer_token' = tasks[i].res.body.token]_vars

C21_Witness ==
  \E i \in Ids :
    /\ tasks[i].kind = "stats" /\ tasks[i].act = "get_node_stats"
    /\ tasks[i].vpc = "done" /\ tasks[i].success
    /\ bearer_token = "t2" /\ saved.bearer_token = "t1"

\* C22: when the stats fetch of a start_countdown called from the routine of
\* the countdown task suspends, the bot is not left without loops: a
\* countdown or stats task (the rescheduling one included) is still there.
C22_RescheduleCompletes ==
  [][(\E i \in Ids : /\ tasks[i].pc = "r_countdown" /\ tasks[i].sc = "fetch"
                      /\ running = i /\ running' = None)
       => \E j \in DOMAIN tasks' : tasks'[j].kind \in {"countdown", "stats"}]_vars

\* C23: when verify_user has returned True, the stored token is a non-empty
\* token, so that the next request gets an Authorization header.
C23_VerifiedTokenPresent ==
  \A i \in Ids :
    (tasks[i].vpc = "done" /\ tasks[i].success)
      => /\ bearer_token \notin {"", "null"}
         /\ AuthHeader(bearer_token) # "none"

\* C24: while start() is in the verification it makes because no token is
\* stored, no onboard, check-in or stats request has been issued and no loop
\* exists; start() leaves that verification for the onboard only when
\* verify_user returned True, and otherwise returns at once, after which
\* nothing runs any more.
C24_VerifyBeforeRequests ==
  /\ [](\A i \in Ids :
          tasks[i].pc = "s_verify" =>
            /\ Ids = {i}
            /\ tasks[i].act = "none" /\ tasks[i].sc = "none"
            /\ tasks[i].endpoint \in {"none", "verify"}
            /\ countdown_task = None /\ stats_task = None)
  /\ [][\A i \in Ids :
          /\ (tasks[i].pc = "s_verify" /\ tasks'[i].pc # "s_verify") =>
               IF tasks[i].vpc = "done" /\ tasks[i].success
               THEN tasks'[i].pc = "s_onboard"
               ELSE tasks'[i].pc = "s_return" /\ tasks'[i].act = "none"
          /\ tasks[i].pc = "s_return" => DOMAIN tasks' = {}]_vars

C24_Witness ==
  \E i \in Ids : /\ tasks[i].pc = "s_return" /\ Ids = {i}
                  /\ bearer_token = "" /\ tasks[i].seq = "none"
                  /\ countdown_task = None /\ stats_task = None

\* a step taken by task i inside verify_user
VerifyStep(i) ==
  /\ i \in Ids /\ tasks[i].vpc \in {"sign", "req"}
  /\ \/ running = i
     \/ running = None /\ (i \notin DOMAIN tasks' \/ tasks'[i] # tasks[i])

\* C25: a step of verify_user other than the one that ends it with True,
\* and so every step of a call that returns False, leaves the token and the
\* wallet address as they are, in memory and in the persisted config.
C25_FailedVerifyKeepsCredential ==
  [][\A i \in TaskIds :
       (/\ VerifyStep(i)
        /\ ~(i \in DOMAIN tasks' /\ tasks'[i].vpc = "done" /\ tasks'[i].success))
         => UNCHANGED <<bearer_token, wallet_address, saved>>]_vars

C25_Witness ==
  \E i \in Ids : /\ tasks[i].vpc = "done" /\ ~tasks[i].success
                  /\ tasks[i].res.k = "val" /\ ~tasks[i].res.body.dict
                  /\ bearer_token = "t1" /\ saved.bearer_token = "t1"

\* a step taken by the countdown task i from position pc of its loop
LoopStep(i, pc) ==
  /\ i \in Ids /\ tasks[i].kind = "countdown" /\ tasks[i].pc = pc
  /\ running = None /\ (i \notin DOMAIN tasks' \/ tasks'[i] # tasks[i])

\* the task i is in perform_routine_tasks
InRoutine(t) ==
  t.pc \in {"r_onboard", "r_sleep1", "r_checkin", "r_sleep2", "r_countdown",
            "r_failed"}

\* C18: countdown_remaining_seconds is always a non-negative integer; a tick
\* of the countdown loop lowers it by min(remaining, 60); the countdown task
\* enters the routine only with remaining = 0, and once in the routine it
\* never goes back into the loop or starts the routine again.
C18_CountdownTicks ==
  /\ [](countdown_remaining_seconds \in Nat)
  /\ [][\A i \in TaskIds :
          /\ LoopStep(i, "c_sleep") =>
               countdown_remaining_seconds' =
                 countdown_remaining_seconds
                   - (IF countdown_remaining_seconds < 60
                      THEN countdown_remaining_seconds ELSE 60)
          /\ LoopStep(i, "c_start") => UNCHANGED countdown_remaining_seconds
          /\ (LoopStep(i, "c_start") \/ LoopStep(i, "c_sleep")) =>
               /\ i \in DOMAIN tasks'
               /\ tasks'[i].pc = IF countdown_remaining_seconds' = 0
                                 THEN "r_onboard" ELSE "c_sleep"
          /\ (i \in Ids /\ InRoutine(tasks[i]) /\ i \in DOMAIN tasks')
               => /\ tasks'[i].pc \notin {"c_start", "c_sleep"}
                  /\ tasks'[i].pc = "r_onboard" => tasks[i].pc = "r_onboard"]_vars

C18_Witness ==
  \E i \in Ids : /\ tasks[i].kind = "countdown" /\ tasks[i].pc = "r_onboard"
                  /\ running = i /\ countdown_remaining_seconds = 0
                  /\ \E j \in Ids : tasks[j].pc = "st_sleep"

\* C17: in every state after construction the wallet address, in memory and
\* in the persisted config, is the address derived from the private key.
C17_AddressDerivedFromKey ==
  Constructed => /\ wallet_address = Addr
                 /\ saved.state = "ok"
                 /\ saved.wallet_address = Addr

====
